---- MODULE Spec2Model ----
(***************************************************************************)
(* Model of the wire storefront client: the OTP login flow and the session *)
(* restoration of UserAuthContext.tsx against the backend session and the  *)
(* users table, the owner login of OwnerAuthContext, the entity access     *)
(* facade and the change-feed subscription manager of realtime-db.ts, and  *)
(* the product lists that consume the change feed.                         *)
(*                                                                         *)
(* Strings are sequences of one-character strings, so that trim, the       *)
(* lower-casing of hashOtp and the regular expressions of the validators   *)
(* are computed as the code computes them.  Time is counted in minutes    *)
(* and the clock advances by the lifetime of a one-time password.          *)
(* A state update of the provider is taken to be rendered before the next  *)
(* call is made: a call started by the user closes over the current        *)
(* pending verification, a call already in flight keeps the one it         *)
(* captured.                                                               *)
(***************************************************************************)
EXTENDS Integers, Sequences, FiniteSets, TLC

VARIABLES
  configured,   \* isSupabaseConfigured
  now,          \* Date.now(), in minutes
  pending,      \* UserAuthProvider state: PendingVerification | null
  user,         \* UserAuthProvider state: UserProfile | null
  stored,       \* localStorage[USER_AUTH_STORAGE_KEY]
  session,      \* backend auth session: identity of the signed-in user, 0 = none
  nextUid,      \* next identity handed out by signInAnonymously
  users,        \* backend table users: id -> [email, phone]
  calls,        \* requestOtp / verifyOtp calls suspended at an await
  last,         \* what the last call of the provider returned to its caller
  channels,     \* RealtimeDatabase.channels: key -> channel
  open,         \* channels subscribed on the backend and not yet unsubscribed
  chanKey,      \* channel -> the key (channel name) it was opened for
  torn,         \* channels whose returned teardown function has been invoked
  lastSub,      \* the last operation of the subscription manager
  invoked,      \* channels whose notification callback has been invoked
  productRows,  \* backend table products, newest first (created_at descending)
  orderRows,    \* backend table orders, newest first
  inquiryRows,  \* backend table inquiries, newest first
  profileRows,  \* backend table user_profiles: user_id -> row
  nextRow,      \* next row id handed out by gen_random_uuid()
  lastDb,       \* what the last call of the facade returned to its caller
  products,     \* state of the product list consumer: Product[]
  responses,    \* results of getProducts that loadProducts is still awaiting
  feed,         \* change notifications of table products on their way to the consumer
  lastFeed,     \* the notification the consumer's callback was last invoked with, and
                \* the ids of the rows whose INSERT it has been invoked with
  restore,      \* restoreSession of the provider's effect, suspended at an await
  wrong,        \* wrong codes compared for the pending verification by calls checked
                \* against it
  ownerAuth,    \* OwnerAuthProvider state: isAuthenticated
  ownerStored,  \* localStorage[OWNER_AUTH_STORAGE_KEY] === "true"
  ownerCall,    \* login or checkSession of the owner provider, suspended at an await
  ownerLast     \* what the last login or logout of the owner provider returned

vars == << configured, now, pending, user, stored, session, nextUid, users,
           calls, last, channels, open, chanKey, torn, lastSub, invoked,
           productRows, orderRows, inquiryRows, profileRows, nextRow, lastDb,
           products, responses, feed, lastFeed, restore, wrong,
           ownerAuth, ownerStored, ownerCall, ownerLast >>

authVars == << now, pending, user, stored, session, nextUid, users, calls, last,
               restore, wrong >>
ownerVars == << ownerAuth, ownerStored, ownerCall, ownerLast >>
subVars == << channels, open, chanKey, torn, lastSub, invoked >>
tableVars == << productRows, orderRows, inquiryRows, profileRows, nextRow >>
dbVars == << productRows, orderRows, inquiryRows, profileRows, nextRow, lastDb >>
listVars == << products, responses, feed, lastFeed >>

----------------------------------------------------------------------------
(* Bounds of the model *)
MaxTicks == 2
MaxUid == 2
MaxInFlight == 2
MaxChan == 3

(* Program constants *)
OtpTtl == 5
MaxAttempts == 4
OtpLen == 6
PhoneLen == 10

Null == [null |-> TRUE]
NullStr == << >>

----------------------------------------------------------------------------
(* Characters *)
LowerSeq == << "a","b","c","d","e","f","g","h","i","j","k","l","m",
               "n","o","p","q","r","s","t","u","v","w","x","y","z" >>
UpperSeq == << "A","B","C","D","E","F","G","H","I","J","K","L","M",
               "N","O","P","Q","R","S","T","U","V","W","X","Y","Z" >>
DigitSeq == << "0","1","2","3","4","5","6","7","8","9" >>

Range(s) == { s[i] : i \in DOMAIN s }
Letters == Range(LowerSeq) \cup Range(UpperSeq)
Digits == Range(DigitSeq)
Whitespace == { " ", "\t", "\n", "\r" }
\* the character class of the local part (the grave accent, which no input of the
\* model contains, is left out: the lexer of TLA+ cannot write it)
EmailLocalChars == Letters \cup Digits \cup
  { "_","!","#","$","%","&","'","*","+","/","=","?","{","|","}","~","^",".","-" }
EmailLabelChars == Letters \cup Digits \cup { "-" }
PhoneFirstDigits == { "6","7","8","9" }

ToLowerChar(ch) ==
  IF \E i \in DOMAIN UpperSeq : UpperSeq[i] = ch
    THEN LowerSeq[CHOOSE i \in DOMAIN UpperSeq : UpperSeq[i] = ch]
    ELSE ch

ToLowerCase(s) == [ i \in DOMAIN s |-> ToLowerChar(s[i]) ]

RECURSIVE TrimStart(_)
TrimStart(s) ==
  IF s # << >> /\ Head(s) \in Whitespace THEN TrimStart(Tail(s)) ELSE s

RECURSIVE TrimEnd(_)
TrimEnd(s) ==
  IF s # << >> /\ s[Len(s)] \in Whitespace
    THEN TrimEnd(SubSeq(s, 1, Len(s) - 1))
    ELSE s

Trim(s) == TrimEnd(TrimStart(s))

\* value.replace(/[\s-]/g, ""): whitespace and hyphens are dropped
StripSeparators(s) == SelectSeq(s, LAMBDA ch : ch \notin Whitespace \cup { "-" })

AllIn(s, set) == \A i \in DOMAIN s : s[i] \in set

\* the labels of a domain: the pieces between the dots
RECURSIVE SplitDots(_, _)
SplitDots(s, cur) ==
  IF s = << >> THEN << cur >>
  ELSE IF Head(s) = "." THEN << cur >> \o SplitDots(Tail(s), << >>)
  ELSE SplitDots(Tail(s), Append(cur, Head(s)))

\* value.trim() matches: one or more local characters, "@", one or more labels of
\* [a-zA-Z0-9-]+ each followed by a dot, then a top-level label [a-zA-Z]{2,}
isValidEmail(value) ==
  LET v == Trim(value)
      ats == { i \in DOMAIN v : v[i] = "@" }
  IN  /\ Cardinality(ats) = 1
      /\ LET at == CHOOSE i \in ats : TRUE
             local == SubSeq(v, 1, at - 1)
             labels == SplitDots(SubSeq(v, at + 1, Len(v)), << >>)
             tld == labels[Len(labels)]
         IN  /\ local # << >>
             /\ AllIn(local, EmailLocalChars)
             /\ Len(labels) >= 2
             /\ \A i \in 1 .. Len(labels) - 1 :
                  labels[i] # << >> /\ AllIn(labels[i], EmailLabelChars)
             /\ Len(tld) >= 2
             /\ AllIn(tld, Letters)

\* value.trim() without whitespace and hyphens matches /^[6-9]\d{9}$/
isValidPhone(value) ==
  LET v == StripSeparators(Trim(value))
  IN  /\ Len(v) = PhoneLen
      /\ v[1] \in PhoneFirstDigits
      /\ AllIn(v, Digits)

\* /^[0-9]{6}$/.test(otp.trim())
IsOtpFormat(otp) ==
  LET v == Trim(otp) IN Len(v) = OtpLen /\ AllIn(v, Digits)

TEST_OTP == << "1","2","3","4","5","6" >>
generateOtp == TEST_OTP

\* SHA-256 over `${contact.toLowerCase().trim()}::${otp}`; the digest is taken to be
\* collision free, so it is represented by the string it is computed from
hashOtp(otp, contact) == Trim(ToLowerCase(contact)) \o << ":", ":" >> \o otp

----------------------------------------------------------------------------
(* Inputs *)
EmailA == << "a","@","b",".","c","o" >>
EmailAPadded == << " ","a","@","b",".","c","o"," " >>
PhoneA == << "9","8","7","6","5","4","3","2","1","0" >>
BadPhone == << "1","2","3","4","5","6","7","8","9","0" >>
BadEmail == << "a","@","b" >>
ContactInputs == { EmailA, EmailAPadded, PhoneA, BadPhone, BadEmail }
VerifyContacts == { EmailA, EmailAPadded, PhoneA }

WrongOtp == << "6","5","4","3","2","1" >>
ShortOtp == << "1","2","3","4","5" >>
PaddedOtp == << " ","1","2","3","4","5","6" >>
OtpInputs == { TEST_OTP, PaddedOtp, WrongOtp, ShortOtp }

----------------------------------------------------------------------------
(* Backend: the users table (id primary key, email and phone UNIQUE, NULLs apart) *)
UserIds == DOMAIN users

EmailTaken(e, except) ==
  e # NullStr /\ \E u \in UserIds \ { except } : users[u].email = e
PhoneTaken(p, except) ==
  p # NullStr /\ \E u \in UserIds \ { except } : users[u].phone = p

CanInsertUser(id, e, p) ==
  id \notin UserIds /\ ~EmailTaken(e, 0) /\ ~PhoneTaken(p, 0)
CanUpdateUser(id, e, p) ==
  id \in UserIds /\ ~EmailTaken(e, id) /\ ~PhoneTaken(p, id)

WithUser(id, e, p) ==
  [ u \in UserIds \cup { id } |-> IF u = id THEN [ email |-> e, phone |-> p ] ELSE users[u] ]

----------------------------------------------------------------------------
(* Calls of the provider *)
Slots == 1 .. MaxInFlight
FreeSlots == { i \in Slots : calls[i] = Null }
InFlight == { i \in Slots : calls[i] # Null }
NewSlot == CHOOSE i \in FreeSlots : \A j \in FreeSlots : i <= j

\* a call that starts while others are suspended overlaps them
Overlapped(cs) ==
  [ i \in Slots |-> IF cs[i] = Null THEN Null
                    ELSE [ cs[i] EXCEPT !.fresh = FALSE ] ]

\* stale: the pending verification the call was checked against has been replaced
\* fresh: a verifyOtp with the issued code, started right after requestOtp for its
\*        contact, which no other call of the provider has overlapped and no request
\*        of which to the backend has been made to fail
NewCall(op, pc, contact, otp, fresh) ==
  [ op |-> op, pc |-> pc, contact |-> contact, otp |-> otp, pend |-> pending,
    authUser |-> 0, row |-> Null, fresh |-> fresh, stale |-> FALSE ]

\* setPending of requestOtp replaces the pending verification of the calls in flight
Stale(cs) ==
  [ i \in Slots |-> IF cs[i] = Null THEN Null ELSE [ cs[i] EXCEPT !.stale = TRUE ] ]

\* the wrong codes compared for the pending verification, once n more are compared;
\* nothing is counted while there is no pending verification
Counted(n) == IF pending' = Null THEN 0 ELSE wrong + n

\* what the caller of the last call has got back; none while a call is suspended
Outcome(op, outcome, fresh) == [ op |-> op, outcome |-> outcome, fresh |-> fresh ]

CallOutcome(c, outcome) == Outcome(c.op, outcome, c.fresh)

NoOutcome == Outcome("none", "none", FALSE)

Failed(c) == [ c EXCEPT !.fresh = FALSE ]

Profile(id, contact) ==
  [ id |-> id,
    email |-> IF isValidEmail(contact) THEN contact ELSE NullStr,
    phone |-> IF isValidPhone(contact) THEN contact ELSE NullStr,
    contact |-> contact ]

----------------------------------------------------------------------------
(* requestOtp *)
\* mutant: a pending verification for the same contact keeps its attempts
NewPendingKeepsAttempts(contact) ==
  [ contact |-> contact, otpHash |-> hashOtp(generateOtp, contact),
    expiresAt |-> now + OtpTtl,
    attempts |-> IF pending # Null /\ pending.contact = contact THEN pending.attempts
                 ELSE 0 ]

\* mutant: the first digit of a mobile number is not checked
RequestValidAnyFirstDigit(contact) ==
  \/ isValidEmail(Trim(contact))
  \/ LET v == StripSeparators(Trim(contact)) IN Len(v) = PhoneLen /\ AllIn(v, Digits)

RequestValid(contact) == isValidEmail(Trim(contact)) \/ isValidPhone(Trim(contact))

NewPending(contact) ==
  [ contact |-> contact, otpHash |-> hashOtp(generateOtp, contact),
    expiresAt |-> now + OtpTtl, attempts |-> 0 ]

\* lines 113-120: validation, then the call is suspended on the digest
RequestOtpStart(contact) ==
  LET c == NewCall("requestOtp", "digest", Trim(contact), NullStr, FALSE)
  IN  /\ IF RequestValid(contact)
           THEN /\ FreeSlots # { }
                /\ calls' = [ Overlapped(calls) EXCEPT ![NewSlot] = c ]
                /\ last' = NoOutcome
           ELSE /\ calls' = Overlapped(calls)
                /\ last' = CallOutcome(c, "Invalid")
      /\ UNCHANGED << configured, now, pending, user, stored, session, nextUid, users >>
      /\ UNCHANGED << subVars, dbVars, listVars, ownerVars, restore, wrong >>

\* the requestOtp call has resolved; replaced: the pending verification it overwrote
Sent(replaced) ==
  [ op |-> "requestOtp", outcome |-> "Sent", fresh |-> FALSE, replaced |-> replaced ]

\* lines 121-131: the digest is there, the pending verification is replaced
RequestOtpDone(i) ==
  /\ calls[i] # Null
  /\ calls[i].pc = "digest"
  /\ pending' = NewPending(calls[i].contact)
  /\ wrong' = 0
  /\ calls' = [ Stale(calls) EXCEPT ![i] = Null ]
  /\ last' = Sent(pending)
  /\ UNCHANGED << configured, now, user, stored, session, nextUid, users >>
  /\ UNCHANGED << subVars, dbVars, listVars, ownerVars, restore >>

----------------------------------------------------------------------------
(* verifyOtp *)
\* mutant: the contact of the pending verification is not compared
VerifyCheckAnyContact(contact, otp) ==
  IF pending = Null THEN "NoPending"
  ELSE IF now > pending.expiresAt THEN "Expired"
  ELSE IF pending.attempts >= MaxAttempts THEN "TooMany"
  ELSE IF ~IsOtpFormat(otp) THEN "BadFormat"
  ELSE "pass"

\* mutant: the code is taken to have expired at the expiry instant already
VerifyCheckExpiresEarly(contact, otp) ==
  IF pending = Null \/ pending.contact # Trim(contact) THEN "NoPending"
  ELSE IF now >= pending.expiresAt THEN "Expired"
  ELSE IF pending.attempts >= MaxAttempts THEN "TooMany"
  ELSE IF ~IsOtpFormat(otp) THEN "BadFormat"
  ELSE "pass"

\* mutant: one more attempt is let through
VerifyCheckOneMore(contact, otp) ==
  IF pending = Null \/ pending.contact # Trim(contact) THEN "NoPending"
  ELSE IF now > pending.expiresAt THEN "Expired"
  ELSE IF pending.attempts > MaxAttempts THEN "TooMany"
  ELSE IF ~IsOtpFormat(otp) THEN "BadFormat"
  ELSE "pass"

\* mutant: the format of the code is checked before the expiry and the attempts
VerifyCheckFormatFirst(contact, otp) ==
  IF pending = Null \/ pending.contact # Trim(contact) THEN "NoPending"
  ELSE IF ~IsOtpFormat(otp) THEN "BadFormat"
  ELSE IF now > pending.expiresAt THEN "Expired"
  ELSE IF pending.attempts >= MaxAttempts THEN "TooMany"
  ELSE "pass"

\* lines 136-153: the checks made before the first await, in the code's order
VerifyCheck(contact, otp) ==
  IF pending = Null \/ pending.contact # Trim(contact) THEN "NoPending"
  ELSE IF now > pending.expiresAt THEN "Expired"
  ELSE IF pending.attempts >= MaxAttempts THEN "TooMany"
  ELSE IF ~IsOtpFormat(otp) THEN "BadFormat"
  ELSE "pass"

\* mutant: the pending verification survives the too-many-attempts error
PendingAfterCheckKeepsTooMany(r) == IF r = "Expired" THEN Null ELSE pending

\* lines 142 and 147: setPending(null) on expiry and on too many attempts
PendingAfterCheck(r) == IF r \in { "Expired", "TooMany" } THEN Null ELSE pending

\* mutant: a mismatch counts twice
PendingAfterMismatchTwice(prev) ==
  IF prev # Null THEN [ prev EXCEPT !.attempts = @ + 2 ] ELSE prev

\* line 157: setPending((prev) => (prev ? { ...prev, attempts: prev.attempts + 1 } : prev))
PendingAfterMismatch(prev) ==
  IF prev # Null THEN [ prev EXCEPT !.attempts = @ + 1 ] ELSE prev

\* mutant: a login that cannot be completed clears the pending verification
PendingAfterFailureCleared == Null

\* lines 161-163, 172-174, 211-213: the errors thrown after the code has matched are
\* thrown without a setPending call
PendingAfterFailure == pending

\* mutant: the pending verification survives the login
PendingAfterSuccessKept == pending

\* line 228: setPending(null)
PendingAfterSuccess == Null

\* the call follows at once a requestOtp for the same contact and gives the code
\* that requestOtp issued
IsFresh(contact, otp) ==
  /\ otp = generateOtp
  /\ last.op = "requestOtp"
  /\ last.outcome = "Sent"
  /\ pending # Null
  /\ pending.contact = contact
  /\ pending.expiresAt = now + OtpTtl
  /\ pending.attempts = 0
  /\ InFlight = { }

\* a check made before the first await has thrown; the code given is kept with the
\* error that the caller gets
Rejected(c, error) ==
  [ op |-> c.op, outcome |-> error, fresh |-> c.fresh, otp |-> c.otp ]

Complete(i, c, outcome) ==
  /\ calls' = [ calls EXCEPT ![i] = Null ]
  /\ last' = CallOutcome(c, outcome)

VerifyOtpStart(contact, otp) ==
  LET r == VerifyCheck(contact, otp)
      c == NewCall("verifyOtp", "hash", Trim(contact), Trim(otp),
                   IsFresh(Trim(contact), Trim(otp)))
  IN  /\ IF r = "pass"
           THEN /\ FreeSlots # { }
                /\ calls' = [ Overlapped(calls) EXCEPT ![NewSlot] = c ]
                /\ last' = NoOutcome
                /\ UNCHANGED pending
           ELSE /\ pending' = PendingAfterCheck(r)
                /\ calls' = Overlapped(calls)
                /\ last' = Rejected(c, r)
      /\ wrong' = Counted(0)
      /\ UNCHANGED << configured, now, user, stored, session, nextUid, users >>
      /\ UNCHANGED << subVars, dbVars, listVars, ownerVars, restore >>

\* lines 155-169: the digest comparison against the captured pending verification
VerifyOtpCompare(i) ==
  /\ calls[i] # Null
  /\ calls[i].pc = "hash"
  /\ IF hashOtp(calls[i].otp, calls[i].contact) # calls[i].pend.otpHash
       THEN /\ pending' = PendingAfterMismatch(pending)
            /\ wrong' = Counted(IF calls[i].stale THEN 0 ELSE 1)
            /\ Complete(i, calls[i], "Incorrect")
       ELSE IF ~configured
         THEN /\ pending' = PendingAfterFailure
              /\ wrong' = Counted(0)
              /\ Complete(i, calls[i], "NotConfigured")
         ELSE /\ calls' = [ calls EXCEPT ![i].pc = "session" ]
              /\ UNCHANGED << pending, last, wrong >>
  /\ UNCHANGED << configured, now, user, stored, session, nextUid, users >>
  /\ UNCHANGED << subVars, dbVars, listVars, ownerVars, restore >>

\* lines 169-178: getSession resolves
VerifyOtpSession(i) ==
  /\ calls[i] # Null
  /\ calls[i].pc = "session"
  /\ calls' = IF session = 0
                THEN [ calls EXCEPT ![i].pc = "signin" ]
                ELSE [ calls EXCEPT ![i].pc = "select", ![i].authUser = session ]
  /\ UNCHANGED << configured, now, pending, user, stored, session, nextUid, users,
                  last >>
  /\ UNCHANGED << subVars, dbVars, listVars, ownerVars, restore, wrong >>

\* lines 171-175: signInAnonymously resolves, with a new identity or with an error
VerifyOtpSignIn(i, ok) ==
  /\ calls[i] # Null
  /\ calls[i].pc = "signin"
  /\ IF ok
       THEN /\ nextUid <= MaxUid
            /\ session' = nextUid
            /\ nextUid' = nextUid + 1
            /\ calls' = [ calls EXCEPT ![i].pc = "select", ![i].authUser = nextUid ]
            /\ UNCHANGED << pending, last >>
       ELSE /\ pending' = PendingAfterFailure
            /\ Complete(i, Failed(calls[i]), "SessionFailed")
            /\ UNCHANGED << session, nextUid >>
  /\ UNCHANGED << configured, now, user, stored, users >>
  /\ UNCHANGED << subVars, dbVars, listVars, ownerVars, restore, wrong >>

\* lines 180-184: the select of the user row resolves (an error leaves data null)
VerifyOtpSelect(i, ok) ==
  /\ calls[i] # Null
  /\ calls[i].pc = "select"
  /\ calls' = IF ok /\ calls[i].authUser \in UserIds
                THEN [ calls EXCEPT ![i].pc = "update", ![i].row = users[calls[i].authUser] ]
                ELSE [ calls EXCEPT ![i].pc = "insert", ![i].fresh = @ /\ ok ]
  /\ UNCHANGED << configured, now, pending, user, stored, session, nextUid, users,
                  last >>
  /\ UNCHANGED << subVars, dbVars, listVars, ownerVars, restore, wrong >>

\* lines 193-194: the contact form that matched is written, the other one kept
UpdatedEmail(c) == IF isValidEmail(c.contact) THEN c.contact ELSE c.row.email
UpdatedPhone(c) == IF isValidPhone(c.contact) THEN c.contact ELSE c.row.phone

\* lines 217-228: the profile is set and stored, the pending verification cleared
LoggedIn(i, c) ==
  /\ user' = Profile(c.authUser, c.contact)
  /\ stored' = Profile(c.authUser, c.contact)
  /\ pending' = PendingAfterSuccess
  /\ Complete(i, c, "Success")

\* lines 187-197: the update of the existing row resolves; its error is not read
VerifyOtpUpdate(i, ok) ==
  /\ calls[i] # Null
  /\ calls[i].pc = "update"
  /\ LET c == calls[i]
         e == UpdatedEmail(c)
         p == UpdatedPhone(c)
     IN  /\ users' = IF ok /\ CanUpdateUser(c.authUser, e, p)
                       THEN WithUser(c.authUser, e, p)
                       ELSE users
         /\ LoggedIn(i, IF ok THEN c ELSE Failed(c))
  /\ UNCHANGED << configured, now, session, nextUid >>
  /\ wrong' = Counted(0)
  /\ UNCHANGED << subVars, dbVars, listVars, ownerVars, restore >>

\* lines 199-215: the insert of a new row resolves
VerifyOtpInsert(i, ok) ==
  /\ calls[i] # Null
  /\ calls[i].pc = "insert"
  /\ LET c == calls[i]
         p == Profile(c.authUser, c.contact)
     IN  IF ok /\ CanInsertUser(c.authUser, p.email, p.phone)
           THEN /\ users' = WithUser(c.authUser, p.email, p.phone)
                /\ LoggedIn(i, c)
           ELSE /\ pending' = PendingAfterFailure
                /\ Complete(i, IF ok THEN c ELSE Failed(c), "CreateFailed")
                /\ UNCHANGED << user, stored, users >>
  /\ UNCHANGED << configured, now, session, nextUid >>
  /\ wrong' = Counted(0)
  /\ UNCHANGED << subVars, dbVars, listVars, ownerVars, restore >>

----------------------------------------------------------------------------
(* logout, the auth-state listener, the clock *)
\* mutant: local state is cleared only when the backend has signed out
UserAfterLogoutIfSignedOut(ok) == IF configured /\ ~ok THEN user ELSE Null

\* line 238: setUser(null), before the sign-out is attempted
UserAfterLogout(ok) == Null

\* lines 237-244: local state and storage are cleared, signOut is best effort
Logout(ok) ==
  /\ user' = UserAfterLogout(ok)
  /\ stored' = Null
  /\ session' = IF configured /\ ok THEN 0 ELSE session
  /\ calls' = Overlapped(calls)
  /\ last' = Outcome("logout", "Done", FALSE)
  /\ UNCHANGED << configured, now, pending, nextUid, users >>
  /\ UNCHANGED << subVars, dbVars, listVars, ownerVars, restore, wrong >>

\* lines 101-106: the backend reports the session gone (expired or revoked)
SessionGone ==
  /\ configured
  /\ session # 0
  /\ session' = 0
  /\ user' = Null
  /\ stored' = Null
  /\ UNCHANGED << configured, now, pending, nextUid, users, calls, last >>
  /\ UNCHANGED << subVars, dbVars, listVars, ownerVars, restore, wrong >>

Tick ==
  /\ now < MaxTicks * OtpTtl
  /\ now' = now + OtpTtl
  /\ UNCHANGED << configured, pending, user, stored, session, nextUid, users, calls,
                  last >>
  /\ UNCHANGED << subVars, dbVars, listVars, ownerVars, restore, wrong >>

----------------------------------------------------------------------------
Init ==
  /\ configured \in BOOLEAN
  /\ now = 0
  /\ pending = Null
  /\ user = Null
  /\ stored = Null
  /\ session = 0
  /\ nextUid = 1
  /\ users = [ u \in { } |-> Null ]
  /\ calls = [ i \in Slots |-> Null ]
  /\ last = NoOutcome
  /\ channels = [ k \in { } |-> 0 ]
  /\ open = { }
  /\ chanKey = [ c \in { } |-> << >> ]
  /\ torn = { }
  /\ lastSub = Null
  /\ invoked = { }
  /\ productRows = << >>
  /\ orderRows = << >>
  /\ inquiryRows = << >>
  /\ profileRows = [ u \in { } |-> Null ]
  /\ nextRow = 1
  /\ lastDb = Null
  /\ products = << >>
  /\ responses = << >>
  /\ feed = << >>
  /\ lastFeed = Null
  /\ restore = Null
  /\ wrong = 0
  /\ ownerAuth = FALSE
  /\ ownerStored = FALSE
  /\ ownerCall = Null
  /\ ownerLast = Null

\* The caller awaits each requestOtp and verifyOtp before it makes the next call;
\* logout, the auth-state listener and the clock are not held back by a call.
Next ==
  \/ \E c \in ContactInputs : InFlight = { } /\ RequestOtpStart(c)
  \/ \E i \in Slots : RequestOtpDone(i)
  \/ \E c \in VerifyContacts, o \in OtpInputs : InFlight = { } /\ VerifyOtpStart(c, o)
  \/ \E i \in Slots : VerifyOtpCompare(i)
  \/ \E i \in Slots : VerifyOtpSession(i)
  \/ \E i \in Slots, ok \in BOOLEAN : VerifyOtpSignIn(i, ok)
  \/ \E i \in Slots, ok \in BOOLEAN : VerifyOtpSelect(i, ok)
  \/ \E i \in Slots, ok \in BOOLEAN : VerifyOtpUpdate(i, ok)
  \/ \E i \in Slots, ok \in BOOLEAN : VerifyOtpInsert(i, ok)
  \/ \E ok \in BOOLEAN : Logout(ok)
  \/ SessionGone
  \/ Tick

Spec == Init /\ [][Next]_vars

----------------------------------------------------------------------------
(* Startup session restoration, and the client that does not wait for its calls *)

\* lines 82-89: the profile is read off the user row
RestoredProfile(id, row) ==
  [ id |-> id, email |-> row.email, phone |-> row.phone,
    contact |-> IF row.email # NullStr THEN row.email ELSE row.phone ]

RestoreFrame ==
  /\ UNCHANGED << configured, now, pending, session, nextUid, users, calls, last, wrong >>
  /\ UNCHANGED << subVars, dbVars, listVars, ownerVars >>

\* lines 73-74: getSession resolves; without a session restoreSession ends
RestoreSession ==
  /\ restore # Null
  /\ restore.pc = "session"
  /\ restore' = IF session # 0 THEN [ pc |-> "select", authUser |-> session ]
                ELSE Null
  /\ UNCHANGED << user, stored >>
  /\ RestoreFrame

\* lines 75-92: the select of the user row resolves (an error leaves data null)
RestoreSelect(ok) ==
  /\ restore # Null
  /\ restore.pc = "select"
  /\ IF ok /\ restore.authUser \in UserIds
       THEN /\ user' = RestoredProfile(restore.authUser, users[restore.authUser])
            /\ stored' = RestoredProfile(restore.authUser, users[restore.authUser])
       ELSE UNCHANGED << user, stored >>
  /\ restore' = Null
  /\ RestoreFrame

\* the page is loaded by a customer who has logged in before: the backend session and
\* the snapshot of the last login are there, the provider has mounted with no user
\* (line 65) and its effect has called restoreSession (line 99)
InitRace ==
  /\ configured = TRUE
  /\ now = 0
  /\ pending = Null
  /\ user = Null
  /\ stored = Profile(1, EmailA)
  /\ session = 1
  /\ nextUid = 2
  /\ users = [ u \in { 1 } |-> [ email |-> EmailA, phone |-> NullStr ] ]
  /\ calls = [ i \in Slots |-> Null ]
  /\ last = NoOutcome
  /\ channels = [ k \in { } |-> 0 ]
  /\ open = { }
  /\ chanKey = [ c \in { } |-> << >> ]
  /\ torn = { }
  /\ lastSub = Null
  /\ invoked = { }
  /\ productRows = << >>
  /\ orderRows = << >>
  /\ inquiryRows = << >>
  /\ profileRows = [ u \in { } |-> Null ]
  /\ nextRow = 1
  /\ lastDb = Null
  /\ products = << >>
  /\ responses = << >>
  /\ feed = << >>
  /\ lastFeed = Null
  /\ restore = [ pc |-> "session", authUser |-> 0 ]
  /\ wrong = 0
  /\ ownerAuth = FALSE
  /\ ownerStored = FALSE
  /\ ownerCall = Null
  /\ ownerLast = Null

\* Calls are made while earlier ones are suspended: nothing in the provider holds a
\* call back.  One contact is used, with the code issued and a wrong one.  The
\* requests of a call to the backend are answered without a failure; logout and the
\* clock, which add nothing to the interleavings, are left out.
NextRace ==
  \/ RestoreSession
  \/ RestoreSelect(TRUE)
  \/ RequestOtpStart(EmailA)
  \/ \E i \in Slots : RequestOtpDone(i)
  \/ \E o \in { TEST_OTP, WrongOtp } : VerifyOtpStart(EmailA, o)
  \/ \E i \in Slots : VerifyOtpCompare(i)
  \/ \E i \in Slots : VerifyOtpSession(i)
  \/ \E i \in Slots : VerifyOtpSignIn(i, TRUE)
  \/ \E i \in Slots : VerifyOtpSelect(i, TRUE)
  \/ \E i \in Slots : VerifyOtpUpdate(i, TRUE)
  \/ \E i \in Slots : VerifyOtpInsert(i, TRUE)
  \/ SessionGone

SpecRace == InitRace /\ [][NextRace]_vars

----------------------------------------------------------------------------
(* The owner provider: the login of the dashboard behind AdminRoute *)
OWNER_EMAIL ==
  << "o","w","n","e","r","@","c","a","b","l","e","h","q",".","c","o","m" >>
OWNER_PASSWORD == << "S","e","c","u","r","e","P","a","s","s","1","2","3","!" >>

\* the owner's email as it is, and padded and in capitals; another email
OwnerEmailInputs ==
  { OWNER_EMAIL,
    << " ","O","w","n","e","r","@","C","a","b","l","e","H","Q",".","c","o","m"," " >>,
    EmailA }
\* the owner's password as it is, padded, and in lower case
OwnerPasswordInputs ==
  { OWNER_PASSWORD,
    << " ","S","e","c","u","r","e","P","a","s","s","1","2","3","!","\n" >>,
    << "s","e","c","u","r","e","p","a","s","s","1","2","3","!" >> }

\* what login or logout has handed to its caller, with the arguments of the call
OwnerResult(op, value, email, password) ==
  [ op |-> op, value |-> value, email |-> email, password |-> password ]

OwnerCall(op, email, password) == [ op |-> op, email |-> email, password |-> password ]

\* mutant: the password is compared without regard to case
CredentialsMatchAnyCase(email, password) ==
  /\ ToLowerCase(Trim(email)) = OWNER_EMAIL
  /\ ToLowerCase(Trim(password)) = ToLowerCase(OWNER_PASSWORD)

\* lines 43-46: the email is trimmed and lower-cased, the password is trimmed
CredentialsMatch(email, password) ==
  /\ ToLowerCase(Trim(email)) = OWNER_EMAIL
  /\ Trim(password) = OWNER_PASSWORD

\* AdminRoute lines 10-16: the dashboard is rendered, not the redirect to the login
AdminRouteRenders == ownerAuth

OwnerFrame ==
  /\ UNCHANGED << configured, now, pending, users, calls, last, restore, wrong >>
  /\ UNCHANGED << subVars, dbVars, listVars >>

\* lines 60-65 and 72-76: setIsAuthenticated(true), the flag is stored, true is returned
OwnerLoggedIn(email, password) ==
  /\ ownerAuth' = TRUE
  /\ ownerStored' = TRUE
  /\ ownerLast' = OwnerResult("login", TRUE, email, password)

\* lines 42-53 and 71-77: the credentials are compared; with a backend the call is
\* suspended on signInAnonymously, without one the owner is logged in at once
OwnerLoginStart(email, password) ==
  /\ ownerCall = Null
  /\ IF ~CredentialsMatch(email, password)
       THEN /\ ownerLast' = OwnerResult("login", FALSE, email, password)
            /\ UNCHANGED << ownerAuth, ownerStored, ownerCall >>
       ELSE IF configured
         THEN /\ ownerCall' = OwnerCall("login", email, password)
              /\ ownerLast' = Null
              /\ UNCHANGED << ownerAuth, ownerStored >>
         ELSE /\ OwnerLoggedIn(email, password)
              /\ UNCHANGED ownerCall
  /\ UNCHANGED << user, stored, session, nextUid >>
  /\ OwnerFrame

\* lines 53-70: signInAnonymously resolves with a new session, or with an error (or
\* rejects), and then false is returned
OwnerLoginSignIn(ok) ==
  /\ ownerCall # Null
  /\ ownerCall.op = "login"
  /\ IF ok
       THEN /\ nextUid <= MaxUid
            /\ session' = nextUid
            /\ nextUid' = nextUid + 1
            /\ OwnerLoggedIn(ownerCall.email, ownerCall.password)
       ELSE /\ ownerLast' = OwnerResult("login", FALSE, ownerCall.email, ownerCall.password)
            /\ UNCHANGED << session, nextUid, ownerAuth, ownerStored >>
  /\ ownerCall' = Null
  /\ UNCHANGED << user, stored >>
  /\ OwnerFrame

\* lines 80-89: the state and the flag are cleared, then signOut is awaited; a sign-out
\* is reported to the listener of the customer provider (lines 101-106)
OwnerLogout(ok) ==
  /\ ownerAuth' = FALSE
  /\ ownerStored' = FALSE
  /\ ownerLast' = OwnerResult("logout", ~configured \/ ok, NullStr, NullStr)
  /\ IF configured /\ ok /\ session # 0
       THEN session' = 0 /\ user' = Null /\ stored' = Null
       ELSE UNCHANGED << session, user, stored >>
  /\ UNCHANGED << nextUid, ownerCall >>
  /\ OwnerFrame

\* lines 18-40: the provider is mounted (the page is loaded): isAuthenticated starts as
\* the stored flag, and with the flag set checkSession is suspended on getSession
OwnerMount ==
  /\ ownerAuth' = ownerStored
  /\ ownerCall' = IF configured /\ ownerStored THEN OwnerCall("checkSession", NullStr, NullStr)
                  ELSE Null
  /\ ownerLast' = Null
  /\ UNCHANGED << ownerStored, user, stored, session, nextUid >>
  /\ OwnerFrame

\* lines 31-35: getSession resolves; without a session the owner is logged out
OwnerCheckSession ==
  /\ ownerCall # Null
  /\ ownerCall.op = "checkSession"
  /\ IF session = 0
       THEN ownerAuth' = FALSE /\ ownerStored' = FALSE
       ELSE UNCHANGED << ownerAuth, ownerStored >>
  /\ ownerCall' = Null
  /\ UNCHANGED << ownerLast, user, stored, session, nextUid >>
  /\ OwnerFrame

\* the owner awaits a login before the next; the backend session is the one shared
\* with the customer provider, so it can be reported gone at any time
NextOwner ==
  \/ \E e \in OwnerEmailInputs, p \in OwnerPasswordInputs : OwnerLoginStart(e, p)
  \/ \E ok \in BOOLEAN : OwnerLoginSignIn(ok)
  \/ \E ok \in BOOLEAN : OwnerLogout(ok)
  \/ OwnerMount
  \/ OwnerCheckSession
  \/ SessionGone

SpecOwner == Init /\ [][NextOwner]_vars

----------------------------------------------------------------------------
(* The subscription manager of RealtimeDatabase *)
NoUserId == ""
UserIdInputs == { NoUserId, "u1" }

\* channel names: 'products_realtime', `orders_${userId}` or 'orders_all',
\* `inquiries_${userId}` or 'inquiries_all'
ProductsChannelName == << "products_", "realtime" >>
OrdersChannelName(userId) ==
  IF userId # NoUserId THEN << "orders_", userId >> ELSE << "orders_", "all" >>
InquiriesChannelName(userId) ==
  IF userId # NoUserId THEN << "inquiries_", userId >> ELSE << "inquiries_", "all" >>

Channels == DOMAIN chanKey
NewChannel == Cardinality(Channels) + 1

SubOp(op, chan) == [ op |-> op, chan |-> chan ]

\* this.channels.set(channelName, channel)
ChannelsSet(name, channel) ==
  [ k \in DOMAIN channels \cup { name } |-> IF k = name THEN channel ELSE channels[k] ]

\* this.channels.delete(channelName)
ChannelsDelete(name) == [ k \in DOMAIN channels \ { name } |-> channels[k] ]

\* mutant: subscribe does not look at isSupabaseConfigured
SubscribeNeverShortCircuits == FALSE

\* lines 174, 278, 360: if (!isSupabaseConfigured) return () => {}
SubscribeShortCircuits == ~configured

\* the body shared by subscribeToProducts, subscribeToOrders and subscribeToInquiries:
\* a channel is opened under the name and registered; chan 0 is the no-op teardown
\* returned when the backend is not configured
Subscribe(name) ==
  /\ IF SubscribeShortCircuits
       THEN /\ lastSub' = SubOp("subscribe", 0)
            /\ UNCHANGED << channels, open, chanKey, torn >>
       ELSE /\ NewChannel <= MaxChan
            /\ open' = open \cup { NewChannel }
            /\ chanKey' = [ c \in Channels \cup { NewChannel } |->
                             IF c = NewChannel THEN name ELSE chanKey[c] ]
            /\ channels' = ChannelsSet(name, NewChannel)
            /\ lastSub' = SubOp("subscribe", NewChannel)
            /\ UNCHANGED torn
  /\ UNCHANGED << configured, invoked >>
  /\ UNCHANGED << authVars, dbVars, listVars, ownerVars >>

\* lines 173-199
SubscribeToProducts == Subscribe(ProductsChannelName)
\* lines 277-303
SubscribeToOrders(userId) == Subscribe(OrdersChannelName(userId))
\* lines 359-385
SubscribeToInquiries(userId) == Subscribe(InquiriesChannelName(userId))

\* mutant: the teardown forgets to unsubscribe its channel
OpenAfterTeardownLeak(ch) == open

\* channel.unsubscribe() of the teardown returned for channel ch
OpenAfterTeardown(ch) == open \ { ch }

\* this.channels.delete(channelName) of the teardown returned for channel ch
ChannelsAfterTeardown(ch) == ChannelsDelete(chanKey[ch])

\* the function returned by a subscribe call that opened channel ch is invoked
Teardown(ch) ==
  /\ ch \in Channels
  /\ open' = OpenAfterTeardown(ch)
  /\ channels' = ChannelsAfterTeardown(ch)
  /\ torn' = torn \cup { ch }
  /\ lastSub' = SubOp("teardown", ch)
  /\ UNCHANGED << configured, chanKey, invoked >>
  /\ UNCHANGED << authVars, dbVars, listVars, ownerVars >>

\* the function returned by a subscribe call on an unconfigured backend is invoked
NoopTeardown ==
  /\ ~configured
  /\ lastSub # Null
  /\ lastSub' = SubOp("teardown", 0)
  /\ UNCHANGED << configured, channels, open, chanKey, torn, invoked >>
  /\ UNCHANGED << authVars, dbVars, listVars, ownerVars >>

\* lines 428-433: every registered channel is unsubscribed, the table is cleared
OpenAfterUnsubscribeAll == open \ { channels[k] : k \in DOMAIN channels }

UnsubscribeAll ==
  /\ open' = OpenAfterUnsubscribeAll
  /\ channels' = [ k \in { } |-> 0 ]
  /\ lastSub' = SubOp("unsubscribeAll", 0)
  /\ UNCHANGED << configured, chanKey, torn, invoked >>
  /\ UNCHANGED << authVars, dbVars, listVars, ownerVars >>

\* lines 183-189, 288-294, 370-376: the backend pushes a change of the table to the
\* open channel ch and the handler registered on it invokes the callback that was
\* passed to subscribe (here the callback of a caller whose state is not modelled)
ChannelEvent(ch) ==
  /\ ch \in open
  /\ invoked' = invoked \cup { ch }
  /\ lastSub' = SubOp("event", ch)
  /\ UNCHANGED << configured, channels, open, chanKey, torn >>
  /\ UNCHANGED << authVars, dbVars, listVars, ownerVars >>

NextSub ==
  \/ SubscribeToProducts
  \/ \E u \in UserIdInputs : SubscribeToOrders(u)
  \/ \E u \in UserIdInputs : SubscribeToInquiries(u)
  \/ \E ch \in Channels : Teardown(ch)
  \/ NoopTeardown
  \/ UnsubscribeAll
  \/ \E ch \in Channels : ChannelEvent(ch)

SpecSub == Init /\ [][NextSub]_vars

----------------------------------------------------------------------------
(* The entity access facade of RealtimeDatabase and the store behind it *)
MaxRows == 2
MaxLoads == 1
MaxFeed == 1
MaxMounts == 1

RowIds == 1 .. MaxRows

\* userId?: string left out, so that the list is not filtered
AnyUser == 0
OwnerInputs == { AnyUser, 1, 2 }

\* what a call of the facade hands to its caller: a returned value or a thrown error;
\* requested: a request has been made to the store; error: the store answered it
\* with an error
Returned(op, value, requested, error) ==
  [ op |-> op, kind |-> "return", value |-> value, requested |-> requested,
    error |-> error ]
Thrown(op) ==
  [ op |-> op, kind |-> "throw", value |-> Null, requested |-> TRUE, error |-> TRUE ]

\* the values handed back: a row or null, a sequence of rows, true or false
Rows(seq) == [ rows |-> seq ]
Bool(b) == [ bool |-> b ]

\* mutant: the facade does not look at isSupabaseConfigured
DbNeverShortCircuits == FALSE

\* the first line of every method: if (!isSupabaseConfigured) return ...
DbShortCircuits == ~configured

\* mutant: a read throws the error of the store
ReadFailureThrows(op, degenerate) == Thrown(op)

\* lines 97-100, 114-117: a read logs the error and returns its degenerate value
ReadFailure(op, degenerate) == Returned(op, degenerate, TRUE, TRUE)

\* mutant: a write logs the error and returns null
WriteFailureReturnsNull(op) == Returned(op, Null, TRUE, TRUE)

\* lines 131-134: a write logs the error and throws it
WriteFailure(op) == Thrown(op)

ReadResult(op, degenerate, err, data) ==
  IF DbShortCircuits THEN Returned(op, degenerate, FALSE, FALSE)
  ELSE IF err THEN ReadFailure(op, degenerate)
  ELSE Returned(op, data, TRUE, FALSE)

WriteResult(op, degenerate, err, data) ==
  IF DbShortCircuits THEN Returned(op, degenerate, FALSE, FALSE)
  ELSE IF err THEN WriteFailure(op)
  ELSE Returned(op, data, TRUE, FALSE)

\* the write reaches the store and the store carries it out
Written(err) == ~DbShortCircuits /\ ~err

HasRow(rows, id) == \E i \in DOMAIN rows : rows[i].id = id
\* .eq('id', id).maybeSingle()
FindRow(rows, id) ==
  IF HasRow(rows, id) THEN rows[CHOOSE i \in DOMAIN rows : rows[i].id = id] ELSE Null
\* .eq('user_id', userId) when a userId is given
OwnedBy(rows, userId) ==
  IF userId # AnyUser THEN SelectSeq(rows, LAMBDA r : r.user_id = userId) ELSE rows
\* .update(updates).eq('id', id): the columns named in updates are overwritten
Spread(a, b) ==
  [ f \in DOMAIN a \cup DOMAIN b |-> IF f \in DOMAIN b THEN b[f] ELSE a[f] ]
UpdateRow(rows, id, updates) ==
  [ i \in DOMAIN rows |-> IF rows[i].id = id THEN Spread(rows[i], updates) ELSE rows[i] ]
DeleteRow(rows, id) == SelectSeq(rows, LAMBDA r : r.id # id)

\* the change feed of table products: a change is published to the consumer while a
\* channel of the table is open
Notification(eventType, new, old) == [ eventType |-> eventType, new |-> new, old |-> old ]
Listening == \E ch \in open : chanKey[ch] = ProductsChannelName
Published(n) == IF Listening THEN Append(feed, n) ELSE feed
FeedHasRoom == Listening => Len(feed) < MaxFeed

\* mutant: a call of the facade takes the first entry off the list at once
DbFrameOptimistic ==
  /\ UNCHANGED << configured, authVars, subVars, ownerVars >>
  /\ UNCHANGED << responses, lastFeed >>
  /\ products' = IF products # << >> THEN Tail(products) ELSE products

\* a call of the facade sets no state of its caller: handleDelete, handleSubmit and
\* toggleProductStatus make no setProducts call
DbFrame ==
  /\ UNCHANGED << configured, authVars, subVars, ownerVars >>
  /\ UNCHANGED << products, responses, lastFeed >>

\* lines 89-103
GetProductsResult(err) ==
  ReadResult("getProducts", Rows(<< >>), err, Rows(productRows))

GetProducts(err) ==
  /\ lastDb' = GetProductsResult(err)
  /\ UNCHANGED << tableVars, feed >>
  /\ DbFrame

\* lines 105-120
GetProductById(id, err) ==
  /\ lastDb' = ReadResult("getProductById", Null, err, FindRow(productRows, id))
  /\ UNCHANGED << tableVars, feed >>
  /\ DbFrame

\* lines 122-137: the store assigns the id
CreateProduct(active, err) ==
  LET row == [ id |-> nextRow, is_active |-> active ]
  IN  /\ Written(err) => ( nextRow <= MaxRows /\ FeedHasRoom )
      /\ lastDb' = WriteResult("createProduct", Null, err, row)
      /\ productRows' = IF Written(err) THEN << row >> \o productRows ELSE productRows
      /\ nextRow' = IF Written(err) THEN nextRow + 1 ELSE nextRow
      /\ feed' = IF Written(err) THEN Published(Notification("INSERT", row, Null))
                 ELSE feed
      /\ UNCHANGED << orderRows, inquiryRows, profileRows >>
      /\ DbFrame

\* lines 139-155: .single() makes an update that matches no row an error
UpdateProduct(id, active, err) ==
  LET failed == err \/ ~HasRow(productRows, id)
      updates == [ is_active |-> active ]
      row == [ id |-> id, is_active |-> active ]
  IN  /\ Written(failed) => FeedHasRoom
      /\ lastDb' = WriteResult("updateProduct", Null, failed, row)
      /\ productRows' = IF Written(failed) THEN UpdateRow(productRows, id, updates)
                        ELSE productRows
      /\ feed' = IF Written(failed)
                   THEN Published(Notification("UPDATE", row, [ id |-> id ]))
                   ELSE feed
      /\ UNCHANGED << orderRows, inquiryRows, profileRows, nextRow >>
      /\ DbFrame

\* lines 157-171: a delete that matches no row is no error
DeleteProduct(id, err) ==
  /\ Written(err) => FeedHasRoom
  /\ lastDb' = WriteResult("deleteProduct", Bool(FALSE), err, Bool(TRUE))
  /\ productRows' = IF Written(err) THEN DeleteRow(productRows, id) ELSE productRows
  /\ feed' = IF Written(err) /\ HasRow(productRows, id)
               THEN Published(Notification("DELETE", Null, [ id |-> id ]))
               ELSE feed
  /\ UNCHANGED << orderRows, inquiryRows, profileRows, nextRow >>
  /\ DbFrame

\* lines 201-218
GetOrders(userId, err) ==
  /\ lastDb' = ReadResult("getOrders", Rows(<< >>), err,
                          Rows(OwnedBy(orderRows, userId)))
  /\ UNCHANGED << tableVars, feed >>
  /\ DbFrame

\* lines 220-235
GetOrderById(id, err) ==
  /\ lastDb' = ReadResult("getOrderById", Null, err, FindRow(orderRows, id))
  /\ UNCHANGED << tableVars, feed >>
  /\ DbFrame

\* the trigger update_orders_updated_at: BEFORE UPDATE, NEW.updated_at = now()
Triggered(updates) == Spread(updates, [ updated_at |-> now ])

\* lines 237-252: orders.user_id references users(id); status, payment_status and
\* updated_at take their defaults
CreateOrder(userId, err) ==
  LET failed == err \/ userId \notin UserIds
      row == [ id |-> nextRow, user_id |-> userId, status |-> "pending",
               payment_status |-> "pending", updated_at |-> now ]
  IN  /\ Written(failed) => nextRow <= MaxRows
      /\ lastDb' = WriteResult("createOrder", Null, failed, row)
      /\ orderRows' = IF Written(failed) THEN << row >> \o orderRows ELSE orderRows
      /\ nextRow' = IF Written(failed) THEN nextRow + 1 ELSE nextRow
      /\ UNCHANGED << productRows, inquiryRows, profileRows, feed >>
      /\ DbFrame

\* lines 257-260: payment_status is updated when a paymentStatus is given
NoPaymentStatus == ""

\* mutant: payment_status is written whether or not a paymentStatus is given
OrderUpdatesAlways(status, paymentStatus) ==
  [ status |-> status, payment_status |-> paymentStatus ]

OrderUpdates(status, paymentStatus) ==
  IF paymentStatus # NoPaymentStatus
    THEN [ status |-> status, payment_status |-> paymentStatus ]
    ELSE [ status |-> status ]

\* lines 254-275
UpdateOrderStatus(id, status, paymentStatus, err) ==
  LET failed == err \/ ~HasRow(orderRows, id)
      updates == Triggered(OrderUpdates(status, paymentStatus))
  IN  /\ lastDb' = WriteResult("updateOrderStatus", Null, failed,
                               IF failed THEN Null
                               ELSE Spread(FindRow(orderRows, id), updates))
      /\ orderRows' = IF Written(failed) THEN UpdateRow(orderRows, id, updates)
                      ELSE orderRows
      /\ UNCHANGED << productRows, inquiryRows, profileRows, nextRow, feed >>
      /\ DbFrame

\* lines 305-322
GetInquiries(userId, err) ==
  /\ lastDb' = ReadResult("getInquiries", Rows(<< >>), err,
                          Rows(OwnedBy(inquiryRows, userId)))
  /\ UNCHANGED << tableVars, feed >>
  /\ DbFrame

\* lines 324-339: inquiries.user_id references users(id); status is set to 'pending'
CreateInquiry(userId, err) ==
  LET failed == err \/ userId \notin UserIds
      row == [ id |-> nextRow, user_id |-> userId, status |-> "pending" ]
  IN  /\ Written(failed) => nextRow <= MaxRows
      /\ lastDb' = WriteResult("createInquiry", Null, failed, row)
      /\ inquiryRows' = IF Written(failed) THEN << row >> \o inquiryRows
                        ELSE inquiryRows
      /\ nextRow' = IF Written(failed) THEN nextRow + 1 ELSE nextRow
      /\ UNCHANGED << productRows, orderRows, profileRows, feed >>
      /\ DbFrame

\* lines 341-357
UpdateInquiryStatus(id, status, err) ==
  LET failed == err \/ ~HasRow(inquiryRows, id)
      updates == [ status |-> status ]
  IN  /\ lastDb' = WriteResult("updateInquiryStatus", Null, failed,
                               IF failed THEN Null
                               ELSE Spread(FindRow(inquiryRows, id), updates))
      /\ inquiryRows' = IF Written(failed) THEN UpdateRow(inquiryRows, id, updates)
                        ELSE inquiryRows
      /\ UNCHANGED << productRows, orderRows, profileRows, nextRow, feed >>
      /\ DbFrame

\* lines 387-402: .eq('user_id', userId).maybeSingle(); with any error data is null
GetUserProfile(userId, err) ==
  /\ lastDb' = ReadResult("getUserProfile", Null, err,
                          IF userId \in DOMAIN profileRows THEN profileRows[userId]
                          ELSE Null)
  /\ UNCHANGED << tableVars, feed >>
  /\ DbFrame

\* lines 410-414: { user_id: userId, ...profile, profile_completed: true }
UpsertValues(userId, profile) ==
  Spread(Spread([ user_id |-> userId ], profile), [ profile_completed |-> TRUE ])

\* a new row of user_profiles: full_name is null unless given
ProfileDefaults == [ full_name |-> NullStr, profile_completed |-> FALSE ]

ProfileInputs ==
  { [ full_name |-> "n" ],
    [ full_name |-> "n", profile_completed |-> FALSE ],
    [ full_name |-> "n", user_id |-> 1 ],
    [ full_name |-> "n", user_id |-> 2 ] }

\* lines 404-426: upsert on conflict of user_id; user_profiles.user_id references
\* users(id)
UpsertUserProfile(userId, profile, err) ==
  LET values == UpsertValues(userId, profile)
      key == values.user_id
      failed == err \/ key \notin UserIds
      row == IF key \in DOMAIN profileRows THEN Spread(profileRows[key], values)
             ELSE Spread(ProfileDefaults, values)
  IN  /\ lastDb' = WriteResult("upsertUserProfile", Null, failed, row)
      /\ profileRows' =
           IF Written(failed)
             THEN [ u \in DOMAIN profileRows \cup { key } |->
                      IF u = key THEN row ELSE profileRows[u] ]
             ELSE profileRows
      /\ UNCHANGED << productRows, orderRows, inquiryRows, nextRow, feed >>
      /\ DbFrame

StatusInputs == { "confirmed" }
PaymentStatusInputs == { NoPaymentStatus, "completed" }

\* the users table holds the row of a customer who has logged in and out before
InitDb ==
  /\ configured \in BOOLEAN
  /\ now = 0
  /\ pending = Null
  /\ user = Null
  /\ stored = Null
  /\ session = 0
  /\ nextUid = 2
  /\ users = [ u \in { 1 } |-> [ email |-> EmailA, phone |-> NullStr ] ]
  /\ calls = [ i \in Slots |-> Null ]
  /\ last = Outcome("logout", "Done", FALSE)
  /\ channels = [ k \in { } |-> 0 ]
  /\ open = { }
  /\ chanKey = [ c \in { } |-> << >> ]
  /\ torn = { }
  /\ lastSub = Null
  /\ invoked = { }
  /\ productRows = << >>
  /\ orderRows = << >>
  /\ inquiryRows = << >>
  /\ profileRows = [ u \in { } |-> Null ]
  /\ nextRow = 1
  /\ lastDb = Null
  /\ products = << >>
  /\ responses = << >>
  /\ feed = << >>
  /\ lastFeed = Null
  /\ restore = Null
  /\ wrong = 0
  /\ ownerAuth = FALSE
  /\ ownerStored = FALSE
  /\ ownerCall = Null
  /\ ownerLast = Null

NextDb ==
  \/ \E err \in BOOLEAN : GetProducts(err)
  \/ \E id \in RowIds, err \in BOOLEAN : GetProductById(id, err)
  \/ \E active \in BOOLEAN, err \in BOOLEAN : CreateProduct(active, err)
  \/ \E id \in RowIds, active \in BOOLEAN, err \in BOOLEAN : UpdateProduct(id, active, err)
  \/ \E id \in RowIds, err \in BOOLEAN : DeleteProduct(id, err)
  \/ \E u \in OwnerInputs, err \in BOOLEAN : GetOrders(u, err)
  \/ \E id \in RowIds, err \in BOOLEAN : GetOrderById(id, err)
  \/ \E u \in OwnerInputs \ { AnyUser }, err \in BOOLEAN : CreateOrder(u, err)
  \/ \E id \in RowIds, s \in StatusInputs, p \in PaymentStatusInputs, err \in BOOLEAN :
       UpdateOrderStatus(id, s, p, err)
  \/ \E u \in OwnerInputs, err \in BOOLEAN : GetInquiries(u, err)
  \/ \E u \in OwnerInputs \ { AnyUser }, err \in BOOLEAN : CreateInquiry(u, err)
  \/ \E id \in RowIds, s \in StatusInputs, err \in BOOLEAN :
       UpdateInquiryStatus(id, s, err)
  \/ \E u \in OwnerInputs \ { AnyUser }, err \in BOOLEAN : GetUserProfile(u, err)
  \/ \E u \in OwnerInputs \ { AnyUser }, p \in ProfileInputs, err \in BOOLEAN :
       UpsertUserProfile(u, p, err)
  \/ Tick

SpecDb == InitDb /\ [][NextDb]_vars

----------------------------------------------------------------------------
(* The product list consumers: ProductsManagement and the Products page *)

\* mutant: the DELETE branch drops the first entry with the id only
WithoutFirstProduct(prev, id) ==
  IF \E i \in DOMAIN prev : prev[i].id = id
    THEN LET k == CHOOSE i \in DOMAIN prev :
                    prev[i].id = id /\ \A j \in 1 .. i - 1 : prev[j].id # id
         IN  SubSeq(prev, 1, k - 1) \o SubSeq(prev, k + 1, Len(prev))
    ELSE prev

\* line 217: prev.filter((p) => p.id !== payload.old!.id)
WithoutProduct(prev, id) == SelectSeq(prev, LAMBDA p : p.id # id)

\* lines 207-220 (ProductsManagement) and 136-146 (Products): the callback
ApplyNotification(prev, n) ==
  IF n.eventType = "INSERT" /\ n.new # Null THEN << n.new >> \o prev
  ELSE IF n.eventType = "UPDATE" /\ n.new # Null
    THEN [ i \in DOMAIN prev |-> IF prev[i].id = n.new.id THEN n.new ELSE prev[i] ]
  ELSE IF n.eventType = "DELETE" /\ n.old # Null THEN WithoutProduct(prev, n.old.id)
  ELSE prev

\* what is remembered of the invocations of the callback
Applied(n) ==
  [ n |-> n,
    inserted |-> ( IF lastFeed = Null THEN { } ELSE lastFeed.inserted )
                 \cup ( IF n.eventType = "INSERT" THEN { n.new.id } ELSE { } ) ]

ListFrame ==
  /\ UNCHANGED << configured, authVars, dbVars, ownerVars >>
  /\ UNCHANGED << channels, open, chanKey, torn, lastSub >>

\* lines 191-194: loadProducts calls db.getProducts() and awaits its result
LoadProducts(err) ==
  /\ Len(responses) < MaxLoads
  /\ lastDb' = GetProductsResult(err)
  /\ responses' = Append(responses, GetProductsResult(err).value.rows)
  /\ UNCHANGED << tableVars, feed, products, lastFeed >>
  /\ UNCHANGED << configured, authVars, subVars, ownerVars >>

\* line 195: setProducts(data)
LoadProductsDone ==
  /\ responses # << >>
  /\ products' = Head(responses)
  /\ responses' = Tail(responses)
  /\ UNCHANGED << feed, lastFeed, invoked >>
  /\ ListFrame

\* the handler of the consumer's open channel passes the next notification to the
\* callback, which patches the list
ProductsCallback(ch) ==
  /\ ch \in open
  /\ chanKey[ch] = ProductsChannelName
  /\ feed # << >>
  /\ products' = ApplyNotification(products, Head(feed))
  /\ lastFeed' = Applied(Head(feed))
  /\ feed' = Tail(feed)
  /\ invoked' = invoked \cup { ch }
  /\ UNCHANGED responses
  /\ ListFrame

\* a notification that finds the channel closed is dropped
DropNotification ==
  /\ ~Listening
  /\ feed # << >>
  /\ feed' = Tail(feed)
  /\ UNCHANGED << products, responses, lastFeed, invoked >>
  /\ ListFrame

\* handleSubmit, toggleProductStatus and handleDelete call the facade and set no
\* state of the list; the effect subscribes once its previous cleanup has run; a
\* product is created active and can be switched off
NextList ==
  \/ ~Listening /\ Cardinality(Channels) < MaxMounts /\ SubscribeToProducts
  \/ \E ch \in Channels : Teardown(ch)
  \/ \E err \in BOOLEAN : LoadProducts(err)
  \/ LoadProductsDone
  \/ \E err \in BOOLEAN : CreateProduct(TRUE, err)
  \/ \E id \in RowIds, err \in BOOLEAN : UpdateProduct(id, FALSE, err)
  \/ \E id \in RowIds, err \in BOOLEAN : DeleteProduct(id, err)
  \/ \E ch \in Channels : ProductsCallback(ch)
  \/ DropNotification

SpecList == Init /\ [][NextList]_vars

----------------------------------------------------------------------------
(* Claims about the OTP login flow, checked under Spec *)

\* a step in which a call is suspended at its first await (every accepted requestOtp
\* and every verifyOtp that passes its checks is such a step)
CallStarted == \E i \in Slots : calls[i] = Null /\ calls'[i] # Null

VerifyCompleted(outcome) == last.op = "verifyOtp" /\ last.outcome = outcome

\* C1 (as claimed): with the backend configured and reachable, verifyOtp(c, "123456")
\* made right after requestOtp(c) never fails: whenever such a call has returned, it
\* has returned with the user logged in.
C1_FreshVerifySucceeds ==
  (configured /\ last.op = "verifyOtp" /\ last.fresh) => last.outcome = "Success"

\* C2: once verifyOtp has succeeded no pending verification is left, and a verifyOtp
\* call made next (no requestOtp in between) fails for want of a pending verification.
C2_SingleUse ==
  [][ VerifyCompleted("Success") =>
        /\ pending = Null
        /\ \A c \in VerifyContacts, o \in OtpInputs :
             VerifyOtpStart(c, o) => VerifyCompleted("NoPending")' ]_vars

C2_Witness == VerifyCompleted("NoPending") /\ pending = Null /\ user # Null

\* C3 (as claimed): the fourth wrong-code call on a pending verification clears it.
C3_FourthWrongCallClears ==
  [][ \A i \in Slots :
        ( /\ VerifyCompleted("Incorrect")'
          /\ pending # Null
          /\ pending.attempts = MaxAttempts - 1
          /\ VerifyOtpCompare(i) )
        => pending' = Null ]_vars

\* C3 (amended): the fourth wrong-code call leaves the pending verification in place
\* with attempts = 4; a later call for its contact, whatever its code, fails with the
\* too-many-attempts error (or the expiry error) and it is this call that clears the
\* pending verification.
C3_FifthCallClears ==
  [][ /\ \A i \in Slots :
           ( /\ VerifyCompleted("Incorrect")'
             /\ pending # Null
             /\ pending.attempts = MaxAttempts - 1
             /\ VerifyOtpCompare(i) )
           => ( pending' # Null /\ pending'.attempts = MaxAttempts )
      /\ \A c \in VerifyContacts, o \in OtpInputs :
           ( /\ pending # Null
             /\ pending.contact = Trim(c)
             /\ pending.attempts >= MaxAttempts
             /\ VerifyOtpStart(c, o) )
           => ( /\ pending' = Null
                /\ \/ VerifyCompleted("TooMany")'
                   \/ VerifyCompleted("Expired")' /\ now > pending.expiresAt ) ]_vars

C3_Witness == VerifyCompleted("TooMany") /\ pending = Null

\* C4: requestOtp with a contact that is neither a well-formed email nor a 10-digit
\* mobile number starting with 6-9 fails, suspends no call and leaves the pending
\* state (absent, or present with its attempts and expiry) as it was.
C4_InvalidContactRejected ==
  [][ \A c \in ContactInputs :
        ( ~isValidEmail(c) /\ ~isValidPhone(c) /\ RequestOtpStart(c) )
        => ( /\ last' = Outcome("requestOtp", "Invalid", FALSE)
             /\ pending' = pending
             /\ InFlight' = InFlight ) ]_vars

C4_Witness ==
  /\ last = Outcome("requestOtp", "Invalid", FALSE)
  /\ pending # Null
  /\ pending.attempts > 0

\* C5: verifyOtp with the right code but a contact other than the pending one fails
\* with the request-a-new-OTP error and leaves the pending verification (attempts,
\* hash, expiry) untouched.
C5_WrongContactKeepsPending ==
  [][ \A c \in VerifyContacts, o \in OtpInputs :
        ( /\ pending # Null
          /\ pending.contact # Trim(c)
          /\ Trim(o) = generateOtp
          /\ VerifyOtpStart(c, o) )
        => ( VerifyCompleted("NoPending")' /\ pending' = pending ) ]_vars

C5_Witness == VerifyCompleted("NoPending") /\ pending # Null /\ pending.attempts > 0

\* C6: verifyOtp for the pending contact after the expiry instant fails with the
\* expiry error and clears the pending verification, whatever the code; at or before
\* the expiry instant it is not rejected for expiry.
C6_ExpiryRejects ==
  [][ \A c \in VerifyContacts, o \in OtpInputs :
        ( /\ pending # Null
          /\ pending.contact = Trim(c)
          /\ VerifyOtpStart(c, o) )
        => IF now > pending.expiresAt
             THEN VerifyCompleted("Expired")' /\ pending' = Null
             ELSE ~VerifyCompleted("Expired")' ]_vars

C6_Witness == VerifyCompleted("Expired") /\ pending = Null /\ now > 0

\* C17: requestOtp with a valid contact is accepted whatever pending verification there
\* is, and when it resolves the pending verification is the new one alone: bound to the
\* trimmed contact, with the digest of the issued code, attempts = 0 and an expiry five
\* minutes after the instant the request reads the clock.
C17_RequestReplacesPending ==
  [][ /\ \A c \in ContactInputs :
           ( /\ CallStarted
             /\ RequestOtpStart(c)
             /\ isValidEmail(c) \/ isValidPhone(c) )
           => \E i \in Slots : /\ calls'[i] # Null
                               /\ calls'[i].op = "requestOtp"
                               /\ calls'[i].contact = Trim(c)
      /\ \A i \in Slots :
           ( /\ calls[i] # Null
             /\ calls[i].op = "requestOtp"
             /\ RequestOtpDone(i) )
           => /\ last'.outcome = "Sent"
              /\ pending' = [ contact |-> calls[i].contact,
                              otpHash |-> hashOtp(TEST_OTP, calls[i].contact),
                              expiresAt |-> now + OtpTtl,
                              attempts |-> 0 ] ]_vars

C17_Witness ==
  /\ last.op = "requestOtp"
  /\ last.outcome = "Sent"
  /\ last.replaced # Null
  /\ last.replaced.attempts > 0
  /\ last.replaced.contact = pending.contact
  /\ last.replaced.expiresAt < pending.expiresAt
  /\ pending.attempts = 0

\* C18: a verifyOtp call for the pending contact, before expiry and below the limit,
\* with six digits that are not the code, reaches the comparison, fails as incorrect and
\* adds exactly one to attempts, contact, hash and expiry staying as they were; a call
\* whose code (trimmed, as the code is read) is not six digits fails and adds nothing to
\* attempts: under the same conditions it leaves the pending verification untouched.
C18_WrongCodeCountsOnce ==
  [][ /\ \A c \in VerifyContacts, o \in OtpInputs :
           ( /\ CallStarted
             /\ pending # Null
             /\ VerifyOtpStart(c, o) )
           => pending' = pending
      /\ \A i \in Slots :
           ( /\ calls[i] # Null
             /\ calls[i].pc = "hash"
             /\ pending # Null
             /\ calls[i].otp # generateOtp
             /\ VerifyOtpCompare(i) )
           => /\ pending.contact = calls[i].contact
              /\ pending.attempts < MaxAttempts
              /\ VerifyCompleted("Incorrect")'
              /\ pending' = [ pending EXCEPT !.attempts = pending.attempts + 1 ]
      /\ \A c \in VerifyContacts, o \in OtpInputs :
           ( /\ last'.op = "verifyOtp"
             /\ ~IsOtpFormat(o)
             /\ VerifyOtpStart(c, o) )
           => /\ last'.outcome \in { "NoPending", "Expired", "TooMany", "BadFormat" }
              /\ pending' # Null => pending' = pending
              /\ ( /\ pending # Null
                   /\ pending.contact = Trim(c)
                   /\ now <= pending.expiresAt
                   /\ pending.attempts < MaxAttempts )
                 => ( VerifyCompleted("BadFormat")' /\ pending' = pending ) ]_vars

C18_Witness ==
  /\ VerifyCompleted("BadFormat")
  /\ pending # Null
  /\ pending.attempts = 2

\* C19 (as claimed): from Pending, a verifyOtp call leaves no pending verification in
\* each of three cases: the expiry has passed, the attempts limit is reached, the
\* contact given differs from the pending one.
C19_ThreeWaysToIdle ==
  [][ \A c \in VerifyContacts, o \in OtpInputs :
        ( /\ last'.op = "verifyOtp"
          /\ pending # Null
          /\ VerifyOtpStart(c, o) )
        => /\ ( pending.contact = Trim(c) /\ now > pending.expiresAt ) => pending' = Null
           /\ ( pending.contact = Trim(c) /\ pending.attempts >= MaxAttempts )
                => pending' = Null
           /\ pending.contact # Trim(c) => pending' = Null ]_vars

\* C19 (amended): the checks of a verifyOtp call clear the pending verification in two
\* cases only, both for the pending contact: the expiry has passed (expiry error) or
\* attempts has reached 4 (too-many-attempts error); a call with another contact fails
\* with the request-a-new-OTP error and leaves the flow in Pending, expired or not.
C19_TwoWaysToIdle ==
  [][ \A c \in VerifyContacts, o \in OtpInputs :
        ( /\ last'.op \in { "verifyOtp", "none" }
          /\ pending # Null
          /\ VerifyOtpStart(c, o) )
        => IF /\ pending.contact = Trim(c)
              /\ now > pending.expiresAt \/ pending.attempts >= MaxAttempts
             THEN /\ pending' = Null
                  /\ VerifyCompleted("Expired")' \/ VerifyCompleted("TooMany")'
             ELSE /\ pending' = pending
                  /\ pending.contact # Trim(c) => VerifyCompleted("NoPending")' ]_vars

C19_Witness ==
  /\ VerifyCompleted("NoPending")
  /\ pending # Null
  /\ now > pending.expiresAt
  /\ pending.attempts = MaxAttempts

\* C20: logout returns to its caller without an error and leaves the client with no
\* user and no stored snapshot, whether the backend signs out, fails to, or is not
\* configured.
C20_LogoutAlwaysClears ==
  [][ \A ok \in BOOLEAN :
        ( last'.op = "logout" /\ Logout(ok) )
        => /\ user' = Null
           /\ stored' = Null
           /\ last' = Outcome("logout", "Done", FALSE) ]_vars

C20_Witness ==
  /\ last = Outcome("logout", "Done", FALSE)
  /\ configured
  /\ session # 0
  /\ session \in UserIds
  /\ user = Null
  /\ stored = Null

\* the errors thrown by the checks that verifyOtp makes before its first await
CheckErrors == { "NoPending", "Expired", "TooMany", "BadFormat" }

\* the step is a verifyOtp call that was given the code o
VerifyStartedWith(o) ==
  \/ /\ last'.op = "verifyOtp"
     /\ last'.outcome \in CheckErrors
     /\ last'.otp = Trim(o)
  \/ \E i \in Slots : /\ calls[i] = Null
                       /\ calls'[i] # Null
                       /\ calls'[i].otp = Trim(o)

\* C26: a verifyOtp call reports the first check that fails, in this order: no pending
\* verification or another contact (pending kept), expiry passed (pending cleared),
\* attempts >= 4 (pending cleared), code not six digits (pending kept); a call that
\* passes all four goes on to the comparison.  So a malformed code on an expired
\* pending verification gives the expiry error, and with attempts >= 4 the
\* too-many-attempts error.
C26_FirstFailingCheck ==
  [][ \A c \in VerifyContacts, o \in OtpInputs :
        ( VerifyStartedWith(o) /\ VerifyOtpStart(c, o) )
        => IF pending = Null \/ pending.contact # Trim(c)
             THEN VerifyCompleted("NoPending")' /\ pending' = pending
           ELSE IF now > pending.expiresAt
             THEN VerifyCompleted("Expired")' /\ pending' = Null
           ELSE IF pending.attempts >= MaxAttempts
             THEN VerifyCompleted("TooMany")' /\ pending' = Null
           ELSE IF Len(Trim(o)) # OtpLen \/ \E k \in DOMAIN Trim(o) : Trim(o)[k] \notin Digits
             THEN VerifyCompleted("BadFormat")' /\ pending' = pending
           ELSE /\ CallStarted
                /\ last' = NoOutcome
                /\ pending' = pending ]_vars

C26_Witness ==
  /\ VerifyCompleted("TooMany")
  /\ last.otp = ShortOtp
  /\ pending = Null
  /\ now = 0


\* the errors of a verifyOtp call whose code has matched
LoginFailures == { "NotConfigured", "SessionFailed", "CreateFailed" }

\* C30: a verifyOtp call whose code matched and whose login cannot be completed (the
\* backend is not configured, the anonymous sign-in fails, the user row cannot be
\* created) fails and leaves the local user, the stored snapshot and the pending
\* verification with its attempts as they were; the same contact and code given again
\* before the expiry pass the checks and reach the comparison once more.
C30_FailedLoginKeepsPending ==
  [][ /\ \A i \in Slots, ok \in BOOLEAN :
           ( /\ last'.op = "verifyOtp"
             /\ last'.outcome \in LoginFailures
             /\ calls[i] # Null
             /\ \/ VerifyOtpCompare(i)
                \/ VerifyOtpSignIn(i, ok)
                \/ VerifyOtpInsert(i, ok) )
           => /\ hashOtp(calls[i].otp, calls[i].contact) = calls[i].pend.otpHash
              /\ user' = user
              /\ stored' = stored
              /\ pending # Null
              /\ pending' = pending
              /\ pending'.attempts = calls[i].pend.attempts
              /\ last'.outcome = "NotConfigured" <=> ~configured
      /\ \A c \in VerifyContacts, o \in OtpInputs :
           ( /\ last.op = "verifyOtp"
             /\ last.outcome \in LoginFailures
             /\ pending # Null
             /\ Trim(c) = pending.contact
             /\ Trim(o) = generateOtp
             /\ now <= pending.expiresAt
             /\ VerifyOtpStart(c, o) )
           => /\ CallStarted
              /\ pending' = pending ]_vars

C30_Witness ==
  /\ VerifyCompleted("CreateFailed")
  /\ session # 0
  /\ user = Null
  /\ stored = Null
  /\ pending # Null
  /\ pending.attempts = 2
  /\ now = pending.expiresAt

\* C27 (as claimed): when a verifyOtp call succeeds, the users table holds a row with
\* the identity the call obtained from the backend session, and the profile set
\* locally has the id, the email and the phone of that row, whether the row was
\* created by the call or was there before (here: with every request of the call
\* answered by the backend without a failure).
C27_ProfileEqualsRow ==
  [][ \A i \in Slots :
        ( /\ VerifyCompleted("Success")'
          /\ calls[i] # Null
          /\ VerifyOtpUpdate(i, TRUE) \/ VerifyOtpInsert(i, TRUE) )
        => /\ user'.id = calls[i].authUser
           /\ user'.id \in DOMAIN users'
           /\ users'[user'.id].email = user'.email
           /\ users'[user'.id].phone = user'.phone ]_vars

----------------------------------------------------------------------------
(* Claims about calls that overlap, checked under SpecRace *)

\* C21 (as claimed): when the backend reports the session gone the client has no user
\* and no stored snapshot, and from then on a user or a snapshot is set only by a
\* verifyOtp call that succeeds; a restoreSession in flight sets them only while the
\* session it has read is still the session of the backend.
C21_GoneUntilVerified ==
  [][ /\ SessionGone => ( user' = Null /\ stored' = Null )
      /\ ( \/ user' # user /\ user' # Null
           \/ stored' # stored /\ stored' # Null )
         => \/ /\ VerifyCompleted("Success")'
               /\ \E i \in Slots : calls[i] # Null /\ calls'[i] = Null
            \/ /\ restore # Null
               /\ restore' = Null
               /\ session = restore.authUser ]_vars

\* C25 (as claimed): for one pending verification no more than four verifyOtp calls
\* checked against it reach the comparison with a wrong code, whatever the order in
\* which the calls are started and resumed.
C25_AttemptLimitHolds == wrong <= MaxAttempts

\* C28 (as claimed): a verifyOtp call that completes after requestOtp has replaced the
\* pending verification it was checked against leaves the new one as it is: a
\* mismatch does not add to its attempts and a success does not clear it.
C28_StaleCallLeavesPending ==
  [][ \A i \in Slots :
        ( /\ calls[i] # Null
          /\ calls[i].stale
          /\ calls'[i] = Null
          /\ pending # Null
          /\ \/ VerifyOtpCompare(i)
             \/ VerifyOtpUpdate(i, TRUE)
             \/ VerifyOtpInsert(i, TRUE) )
        => pending' = pending ]_vars

----------------------------------------------------------------------------
(* Claims about the owner provider, checked under SpecOwner *)

\* the step hands a result of login to its caller
LoginReturns(value) ==
  /\ ownerLast' # Null
  /\ ownerLast' # ownerLast \/ ownerCall' # ownerCall
  /\ ownerLast'.op = "login"
  /\ ownerLast'.value = value

\* C22: login returns true only for an email that is the owner's once trimmed and
\* lower-cased and a password that is the owner's once trimmed, and then the owner is
\* authenticated and the flag is stored; a login with any other input returns false at
\* once, and every login that returns false leaves the authenticated state and the
\* stored flag as they were.
C22_LoginOnlyWithCredentials ==
  [][ /\ LoginReturns(TRUE) =>
           /\ ToLowerCase(Trim(ownerLast'.email)) = OWNER_EMAIL
           /\ Trim(ownerLast'.password) = OWNER_PASSWORD
           /\ ownerAuth' /\ ownerStored' /\ AdminRouteRenders'
      /\ LoginReturns(FALSE) => ( ownerAuth' = ownerAuth /\ ownerStored' = ownerStored )
      /\ ( ~ownerAuth /\ ownerAuth' ) \/ ( ~ownerStored /\ ownerStored' )
           => LoginReturns(TRUE)
      /\ \A e \in OwnerEmailInputs, p \in OwnerPasswordInputs :
           ( /\ ToLowerCase(Trim(e)) # OWNER_EMAIL \/ Trim(p) # OWNER_PASSWORD
             /\ OwnerLoginStart(e, p) )
           => /\ ownerLast' = OwnerResult("login", FALSE, e, p)
              /\ ownerAuth' = ownerAuth
              /\ ownerStored' = ownerStored
              /\ ownerCall' = Null
              /\ session' = session ]_vars

C22_Witness ==
  /\ ownerLast # Null
  /\ ownerLast.op = "login"
  /\ ~ownerLast.value
  /\ ownerLast.email # OWNER_EMAIL
  /\ ToLowerCase(Trim(ownerLast.email)) = OWNER_EMAIL
  /\ ownerLast.password # OWNER_PASSWORD
  /\ ToLowerCase(ownerLast.password) = ToLowerCase(OWNER_PASSWORD)
  /\ ownerAuth
  /\ ownerStored
  /\ configured
  /\ session # 0

----------------------------------------------------------------------------
(* Claims about the subscription manager, checked under SpecSub *)

OpenFor(k) == { c \in open : chanKey[c] = k }
LiveFor(k) == { c \in Channels \ torn : chanKey[c] = k }
Keys == { chanKey[c] : c \in Channels }
Registered == { channels[k] : k \in DOMAIN channels }

\* C7 (as claimed): no key has more than one open channel.
C7_OneOpenChannelPerKey == \A k \in Keys : Cardinality(OpenFor(k)) <= 1

\* C7 (amended): a channel is opened per subscribe call, not per key: the open
\* channels of a key are channels of subscriptions to it that have not been torn down,
\* and the registry holds one open channel of the key at most.
C7_OneOpenChannelPerSubscription ==
  /\ \A k \in Keys : OpenFor(k) \subseteq LiveFor(k)
  /\ \A k \in DOMAIN channels : channels[k] \in OpenFor(k)

C7_Witness == \E k \in Keys : Cardinality(OpenFor(k)) >= 2 /\ torn # { }

\* C8 (as claimed): after unsubscribeAll every channel opened through the manager is
\* closed and the registry is empty.
C8_UnsubscribeAllClosesAll ==
  lastSub = SubOp("unsubscribeAll", 0) => ( open = { } /\ DOMAIN channels = { } )

\* C9 (as claimed): with two live subscriptions to one key, the teardown of one
\* closes its own channel only, and the other's channel stays open and registered.
C9_OtherStaysTracked ==
  [][ \A ch \in Channels, other \in Channels :
        ( /\ Teardown(ch)
          /\ other # ch
          /\ chanKey[other] = chanKey[ch]
          /\ { ch, other } \subseteq open \ torn )
        => ( /\ ch \notin open'
             /\ other \in open'
             /\ other \in Registered' ) ]_vars

\* C10 (as claimed): the second invocation of a teardown function changes neither the
\* open channels nor the registry.
C10_SecondTeardownNoEffect ==
  [][ \A ch \in torn :
        Teardown(ch) => ( open' = open /\ channels' = channels ) ]_vars

\* C11: while the backend is not configured no subscribe call opens a channel or
\* registers one, the teardown handed back is the no-op function, whose invocations
\* change nothing, and no notification callback is ever invoked.
C11_UnconfiguredSubscribeIsNoop ==
  ~configured =>
    /\ open = { }
    /\ Channels = { }
    /\ DOMAIN channels = { }
    /\ torn = { }
    /\ invoked = { }
    /\ lastSub # Null => ( lastSub.op \in { "subscribe", "teardown", "unsubscribeAll" }
                           /\ lastSub.chan = 0 )

C11_Witness == ~configured /\ lastSub = SubOp("teardown", 0)

----------------------------------------------------------------------------
(* Claims about the entity access facade, checked under SpecDb *)

ListReads == { "getProducts", "getOrders", "getInquiries" }
SingleReads == { "getProductById", "getOrderById", "getUserProfile" }
Writes == { "createProduct", "updateProduct", "deleteProduct", "createOrder",
            "updateOrderStatus", "createInquiry", "updateInquiryStatus",
            "upsertUserProfile" }

\* C13: a read whose request the store answers with an error does not fail: a list
\* read returns the empty sequence and a single-row read returns null, as they do when
\* there is no data.
C13_ReadsSwallowErrors ==
  ( lastDb # Null /\ lastDb.error ) =>
    /\ lastDb.op \in ListReads => ( lastDb.kind = "return" /\ lastDb.value = Rows(<< >>) )
    /\ lastDb.op \in SingleReads => ( lastDb.kind = "return" /\ lastDb.value = Null )

C13_Witness ==
  /\ lastDb # Null
  /\ lastDb.op = "getOrders"
  /\ lastDb.error
  /\ lastDb.kind = "return"
  /\ orderRows # << >>

\* C14: a write whose request the store answers with an error rejects: its caller
\* gets the error thrown and no returned value.
C14_WritesPropagateErrors ==
  ( lastDb # Null /\ lastDb.op \in Writes /\ lastDb.error ) => lastDb.kind = "throw"

C14_Witness ==
  /\ lastDb # Null
  /\ lastDb.op = "updateOrderStatus"
  /\ lastDb.kind = "throw"
  /\ orderRows # << >>

\* C15: while the backend is not configured, create, update, delete and getById of
\* every entity return null (false for delete) without a request to the store, and the
\* tables of the store stay as they were.
C15_UnconfiguredShortCircuits ==
  ~configured =>
    /\ productRows = << >> /\ orderRows = << >> /\ inquiryRows = << >>
    /\ DOMAIN profileRows = { }
    /\ nextRow = 1
    /\ ( lastDb # Null /\ lastDb.op \in Writes \cup SingleReads ) =>
         /\ ~lastDb.requested
         /\ lastDb.kind = "return"
         /\ lastDb.value = IF lastDb.op = "deleteProduct" THEN Bool(FALSE) ELSE Null

C15_Witness ==
  /\ ~configured
  /\ lastDb # Null
  /\ lastDb.op = "deleteProduct"
  /\ ~lastDb.requested

\* C23 (as claimed): upsertUserProfile(userId, profile), answered without a failure of
\* the store for an existing user, writes the row of user userId, and whenever it
\* returns a row that row is the row of userId, with profile_completed = true, and
\* the rows of the other users are as they were.
C23_UpsertWritesOwnRow ==
  [][ \A u \in OwnerInputs \ { AnyUser }, p \in ProfileInputs, err \in BOOLEAN :
        ( configured /\ UpsertUserProfile(u, p, err) )
        => /\ ( u \in UserIds /\ ~err ) => lastDb'.kind = "return"
           /\ lastDb'.kind = "return" =>
                /\ u \in DOMAIN profileRows'
                /\ profileRows'[u] = lastDb'.value
                /\ profileRows'[u].user_id = u
                /\ profileRows'[u].profile_completed
                /\ \A v \in DOMAIN profileRows' \ { u } :
                     v \in DOMAIN profileRows /\ profileRows'[v] = profileRows[v] ]_vars

OrderIds(rows) == { rows[i].id : i \in DOMAIN rows }

\* the columns of an order that updateOrderStatus may change according to the claim
ClaimedColumns(paymentStatus) ==
  IF paymentStatus # NoPaymentStatus THEN { "status", "payment_status" } ELSE { "status" }

\* no step removes an order, and updateOrderStatus(id, s, p) changes the columns in
\* free of order id at most, setting status to s and, when p is given,
\* payment_status to p
OrdersKept(free) ==
  /\ OrderIds(orderRows) \subseteq OrderIds(orderRows')
  /\ \A id \in RowIds, st \in StatusInputs, p \in PaymentStatusInputs, err \in BOOLEAN :
       ( /\ lastDb' # Null
         /\ lastDb'.op = "updateOrderStatus"
         /\ UpdateOrderStatus(id, st, p, err) ) =>
         /\ DOMAIN orderRows' = DOMAIN orderRows
         /\ \A i \in DOMAIN orderRows :
              /\ DOMAIN orderRows'[i] = DOMAIN orderRows[i]
              /\ \A f \in DOMAIN orderRows[i] :
                   \/ orderRows'[i][f] = orderRows[i][f]
                   \/ /\ orderRows[i].id = id
                      /\ f \in ClaimedColumns(p) \cup free
         /\ lastDb'.kind = "return" /\ lastDb'.requested =>
              /\ lastDb'.value = FindRow(orderRows', id)
              /\ lastDb'.value.status = st
              /\ p # NoPaymentStatus => lastDb'.value.payment_status = p
              /\ p = NoPaymentStatus =>
                   lastDb'.value.payment_status = FindRow(orderRows, id).payment_status

\* C24 (as claimed): no operation of the facade removes an order, and
\* updateOrderStatus changes the status of the order and, when a payment status is
\* given, its payment_status, and no other column and no other order.
C24_OnlyStatusChanges == [][ OrdersKept({ }) ]_vars

\* C24 (amended): no operation of the facade removes an order, and updateOrderStatus
\* changes the status of the order, its payment_status when a payment status is given,
\* and its updated_at, which the trigger of the table sets to the time of the update;
\* no other column and no other order changes.
C24_StatusAndTimestampChange == [][ OrdersKept({ "updated_at" }) ]_vars

C24_Witness ==
  /\ lastDb # Null
  /\ lastDb.op = "updateOrderStatus"
  /\ lastDb.kind = "return"
  /\ lastDb.requested
  /\ lastDb.value.payment_status = "pending"
  /\ lastDb.value.status = "confirmed"
  /\ lastDb.value.updated_at > 0
  /\ Len(orderRows) = 2
  /\ \E i \in DOMAIN orderRows : orderRows[i].status = "pending" /\ orderRows[i].updated_at = 0

----------------------------------------------------------------------------
(* Claims about the product list consumers, checked under SpecList *)

\* C12: when the callback of a consumer is invoked with a DELETE notification, the
\* projected list it leaves holds no entry with the id of the deleted row, whatever
\* INSERT notification for that row and whatever notifications for other rows it has
\* applied before.
C12_DeleteLeavesNoTrace ==
  [][ \A ch \in Channels :
        ( /\ feed # << >>
          /\ Head(feed).eventType = "DELETE"
          /\ ProductsCallback(ch) )
        => ~HasRow(products', Head(feed).old.id) ]_vars

C12_Witness ==
  /\ lastFeed # Null
  /\ lastFeed.n.eventType = "DELETE"
  /\ lastFeed.n.old.id \in lastFeed.inserted
  /\ Cardinality(lastFeed.inserted) >= 2
  /\ products # << >>
  /\ ~HasRow(products, lastFeed.n.old.id)

\* C16: the projected list changes only when the result of a list read is set or the
\* callback is invoked with a notification; createProduct, updateProduct and
\* deleteProduct, carried out or refused, leave it as it is.
C16_NoOptimisticUpdate ==
  [][ /\ products' # products =>
           ( LoadProductsDone \/ \E ch \in Channels : ProductsCallback(ch) )
      /\ \A id \in RowIds, err \in BOOLEAN :
           ( \/ CreateProduct(TRUE, err)
             \/ UpdateProduct(id, FALSE, err)
             \/ DeleteProduct(id, err) )
           => products' = products ]_vars

C16_Witness ==
  /\ lastDb # Null
  /\ lastDb.op = "deleteProduct"
  /\ lastDb.requested
  /\ lastDb.kind = "return"
  /\ productRows = << >>
  /\ products # << >>

\* C29 (as claimed): the projected list never holds two entries with the same row id,
\* whatever the order in which the results of list reads and the notifications arrive.
C29_NoDuplicateIds ==
  \A i \in DOMAIN products, j \in DOMAIN products :
    i # j => products[i].id # products[j].id

====
